---- MODULE Spec2Model ----
(***************************************************************************)
(* Model of the company e-mail scraper: main() of src/main.go driving      *)
(* ReadCompanyNames, GetSearchResults, GetCompanyEmail and                 *)
(* WriteEmailsToFile of src/scraper/company_scrapper.go, with InitConfig   *)
(* of src/configs/config.go.                                               *)
(*                                                                         *)
(* Text is a sequence of one-character strings, so that substring tests,   *)
(* the e-mail pattern, line scanning and line formatting are computed as   *)
(* the code computes them.  The network, the file system and the           *)
(* configuration are the environment: every answer they can give is a      *)
(* nondeterministic choice.                                                *)
(***************************************************************************)
EXTENDS Integers, Sequences, FiniteSets, TLC

VARIABLES
    pc,            \* position of main(): read, create, loop, searching, email, fetching, write, done, fatal
    inputFile,     \* content of companies-list/input.txt, or Unreadable
    cfgFile,       \* the config.yaml found by viper: missing, malformed, or the key it holds
    envKey,        \* value of SERPAPI_KEY in the environment (<<>> when unset)
    companyNames,  \* main.companyNames
    i,             \* 1-based position of the range loop in companyNames
    output,        \* main.output, the map from company name to resolved URL
    file,          \* bytes of the output file
    companyURL,    \* main.companyURL of the current iteration
    email,         \* main.email of the current iteration
    err,           \* main.err of the current iteration
    inflight,      \* the network request that is being waited for: none, search, page
    response,      \* the answer to the last request, from the moment the client has it
                   \* until main() makes its next call
    requests,      \* every request handed to an HTTP client so far, in order
    calls,         \* every call main() made to the scraper package so far, in order
    logs           \* every line main() reported so far, in order

vars == <<pc, inputFile, cfgFile, envKey, companyNames, i, output, file,
          companyURL, email, err, inflight, response, requests, calls, logs>>

----------------------------------------------------------------------------
(* Bounds of the model *)

MaxCompanies == 2
MaxOrganic == 2

----------------------------------------------------------------------------
(* Text helpers *)

Lower == {"a","b","c","d","e","f","g","h","i","j","k","l","m",
          "n","o","p","q","r","s","t","u","v","w","x","y","z"}
Upper == {"A","B","C","D","E","F","G","H","I","J","K","L","M",
          "N","O","P","Q","R","S","T","U","V","W","X","Y","Z"}
Digit == {"0","1","2","3","4","5","6","7","8","9"}
Alpha == Lower \cup Upper

SetMax(S) == CHOOSE x \in S : \A y \in S : y <= x
SetMin(S) == CHOOSE x \in S : \A y \in S : x <= y

\* strings.Contains(s, sub)
Contains(s, sub) ==
    \E k \in 1..(Len(s) - Len(sub) + 1) : SubSeq(s, k, k + Len(sub) - 1) = sub

\* strings.HasPrefix(s, p)
HasPrefix(s, p) == Len(s) >= Len(p) /\ SubSeq(s, 1, Len(p)) = p

\* number of consecutive characters of class C in t starting at position p
RunLen(t, p, C) ==
    SetMax({n \in 0..(Len(t) - p + 1) : \A j \in p..(p + n - 1) : t[j] \in C})

\* number of consecutive characters of class C in t ending at position p
BackRunLen(t, p, C) ==
    SetMax({n \in 0..p : \A j \in (p - n + 1)..p : t[j] \in C})

\* first position of character c in t, 0 when absent
IndexOf(t, c) ==
    IF \E k \in 1..Len(t) : t[k] = c
    THEN SetMin({k \in 1..Len(t) : t[k] = c})
    ELSE 0

----------------------------------------------------------------------------
(* Errors of models/errors.go: a kind and the text wrapped with it *)

ErrInitConfig          == "error initializing configuration"
ErrAPIKeyNotSet        == "SERPAPI_KEY not set in config or environment"
ErrRequestFailed       == "failed to make request to SerpAPI"
ErrDecodeFailed        == "failed to decode SerpAPI response"
ErrNoResultsFound      == "no results found"
ErrSkippingFacebookURL == "skipping Facebook URL"
ErrFetchFailed         == "failed to fetch the page"
ErrNonOKStatus         == "received non-OK HTTP status"
ErrReadFailed          == "failed to read response body"
ErrNoEmailFound        == "no email found on the page"
ErrInvalidCompanyURL   == "invalid company URL"
ErrWriteFileFailed     == "failed to write to file"

NoError == "nil"

Error(kind, detail) == [kind |-> kind, detail |-> detail]
Nil == Error(NoError, <<>>)

StatusOK == 200

\* resp.Status: the text of a status code
StatusText(s) ==
    CASE s = 200 -> <<"2","0","0">>
      [] s = 201 -> <<"2","0","1">>
      [] s = 404 -> <<"4","0","4">>
      [] OTHER   -> <<"5","0","0">>

----------------------------------------------------------------------------
(* ReadCompanyNames: bufio.Scanner with the default ScanLines split *)

Unreadable == <<"\\unreadable">>

\* bufio.dropCR
DropCR(l) ==
    IF Len(l) > 0 /\ l[Len(l)] = "\r" THEN SubSeq(l, 1, Len(l) - 1) ELSE l

\* the tokens scanner.Scan() yields over the bytes t
RECURSIVE ScanLines(_)
ScanLines(t) ==
    IF Len(t) = 0 THEN <<>>
    ELSE LET k == IndexOf(t, "\n")
         IN  IF k = 0 THEN <<DropCR(t)>>
             ELSE <<DropCR(SubSeq(t, 1, k - 1))>> \o ScanLines(SubSeq(t, k + 1, Len(t)))

\* ReadCompanyNames leaving the empty lines out
ReadCompanyNames_SkipBlank(content) ==
    IF content = Unreadable
    THEN [names |-> <<>>, ok |-> FALSE]
    ELSE [names |-> SelectSeq(ScanLines(content), LAMBDA l : l # <<>>), ok |-> TRUE]

\* ReadCompanyNames(filepath): the names, or an error when the file cannot be
\* opened or scanned
ReadCompanyNames(content) ==
    IF content = Unreadable
    THEN [names |-> <<>>, ok |-> FALSE]
    ELSE [names |-> ScanLines(content), ok |-> TRUE]

----------------------------------------------------------------------------
(* configs.InitConfig and the key viper serves afterwards *)

CfgMissing   == [state |-> "missing",   key |-> <<>>]
CfgMalformed == [state |-> "malformed", key |-> <<>>]
CfgWithKey(k) == [state |-> "valid", key |-> k]

\* InitConfig returning the error of viper.ReadInConfig whatever it is
InitConfig_MissingFails(cfg) ==
    IF cfg.state \in {"malformed", "missing"}
    THEN Error("error reading config file", <<>>)
    ELSE Nil

\* InitConfig(): a missing config file is reported and tolerated, any other
\* read error is returned
InitConfig(cfg) ==
    IF cfg.state = "malformed"
    THEN Error("error reading config file", <<>>)
    ELSE Nil

\* viper.GetString("serpapi.api_key") after InitConfig: the bound environment
\* variable when set, else the value of the config file, else the default ""
ViperGetAPIKey(cfg, env) ==
    IF env # <<>> THEN env
    ELSE IF cfg.state = "valid" THEN cfg.key
    ELSE <<>>

\* getAPIKey() without its test for the empty string
getAPIKey_NoCheck(cfg, env) ==
    [apiKey |-> ViperGetAPIKey(cfg, env), err |-> Nil]

\* getAPIKey()
getAPIKey(cfg, env) ==
    LET apiKey == ViperGetAPIKey(cfg, env)
    IN  IF apiKey = <<>>
        THEN [apiKey |-> <<>>, err |-> Error(ErrAPIKeyNotSet, <<>>)]
        ELSE [apiKey |-> apiKey, err |-> Nil]

\* buildSearchURL(companyName, apiKey): the endpoint with its four parameters
buildSearchURL(companyName, apiKey) ==
    [kind |-> "search", q |-> companyName, api_key |-> apiKey,
     num |-> 1, engine |-> "google"]

\* GetSearchResults with getAPIKey called ahead of InitConfig
GetSearchResultsPrepare_KeyFirst(cfg, env, companyName) ==
    LET k == getAPIKey(cfg, env)
    IN  IF k.err # Nil
        THEN [err |-> k.err, req |-> buildSearchURL(<<>>, <<>>)]
        ELSE IF InitConfig(cfg) # Nil
             THEN [err |-> Error(ErrInitConfig, <<>>), req |-> buildSearchURL(<<>>, <<>>)]
             ELSE [err |-> Nil, req |-> buildSearchURL(companyName, k.apiKey)]

\* GetSearchResults up to the point where the request is handed to the
\* client: the error it returns without a request, or Nil and the request
GetSearchResultsPrepare(cfg, env, companyName) ==
    IF InitConfig(cfg) # Nil
    THEN [err |-> Error(ErrInitConfig, <<>>), req |-> buildSearchURL(<<>>, <<>>)]
    ELSE LET k == getAPIKey(cfg, env)
         IN  IF k.err # Nil
             THEN [err |-> k.err, req |-> buildSearchURL(<<>>, <<>>)]
             ELSE [err |-> Nil, req |-> buildSearchURL(companyName, k.apiKey)]

----------------------------------------------------------------------------
(* GetSearchResults after the request: makeHTTPRequest, decodeResponse,    *)
(* extractFirstResultURL.  A response is [transport, status, body]; a      *)
(* search body is text that is no JSON ("garbage"), JSON of another shape  *)
(* that the decoder rejects ("wrongtype"), or JSON holding the organic     *)
(* list                                                                    *)

\* makeHTTPRequest without its status check
makeHTTPRequest_NoStatusCheck(resp) ==
    IF resp.transport # "ok" THEN Error(ErrRequestFailed, <<>>) ELSE Nil

\* makeHTTPRequest taking every 2xx status for a success
makeHTTPRequest_2xx(resp) ==
    IF resp.transport # "ok" THEN Error(ErrRequestFailed, <<>>)
    ELSE IF resp.status \notin 200..299 THEN Error(ErrNonOKStatus, StatusText(resp.status))
    ELSE Nil

\* makeHTTPRequest(client, url): the error of client.Do, else the status check
makeHTTPRequest(resp) ==
    IF resp.transport # "ok" THEN Error(ErrRequestFailed, <<>>)
    ELSE IF resp.status # StatusOK THEN Error(ErrNonOKStatus, StatusText(resp.status))
    ELSE Nil

\* decodeResponse(resp)
decodeResponse(body) ==
    IF body.kind = "json"
    THEN [organic |-> body.organic, err |-> Nil]
    ELSE [organic |-> <<>>, err |-> Error(ErrDecodeFailed, <<>>)]

\* extractFirstResultURL returning the last link of the list
extractFirstResultURL_Last(organic, companyName) ==
    IF Len(organic) = 0
    THEN [url |-> <<>>, err |-> Error(ErrNoResultsFound, companyName)]
    ELSE [url |-> organic[Len(organic)], err |-> Nil]

\* extractFirstResultURL(serpResponse, companyName)
extractFirstResultURL(organic, companyName) ==
    IF Len(organic) = 0
    THEN [url |-> <<>>, err |-> Error(ErrNoResultsFound, companyName)]
    ELSE [url |-> organic[1], err |-> Nil]

\* GetSearchResults returning the first link of the body along with the
\* error of the status check
GetSearchResultsFinish_KeepsLink(resp, companyName) ==
    LET e == makeHTTPRequest(resp)
    IN  IF e # Nil
        THEN [url |-> IF Len(resp.body.organic) > 0 THEN resp.body.organic[1] ELSE <<>>,
              err |-> e]
        ELSE LET d == decodeResponse(resp.body)
             IN  IF d.err # Nil THEN [url |-> <<>>, err |-> d.err]
                 ELSE extractFirstResultURL(d.organic, companyName)

\* what GetSearchResults returns for the response resp
GetSearchResultsFinish(resp, companyName) ==
    LET e == makeHTTPRequest(resp)
    IN  IF e # Nil THEN [url |-> <<>>, err |-> e]
        ELSE LET d == decodeResponse(resp.body)
             IN  IF d.err # Nil THEN [url |-> <<>>, err |-> d.err]
                 ELSE extractFirstResultURL(d.organic, companyName)

----------------------------------------------------------------------------
(* url.ParseRequestURI, as far as GetCompanyEmail depends on it: whether   *)
(* it fails, and the scheme and host it finds                              *)

FacebookCom == <<"f","a","c","e","b","o","o","k",".","c","o","m">>

HexDigit == Digit \cup {"a","b","c","d","e","f","A","B","C","D","E","F"}
CtlChar  == {"\n", "\r", "\t"}
\* characters url.shouldEscape leaves alone in a host
HostChar == Alpha \cup Digit \cup
            {"-","_",".","~","!","$","&","'","(",")","*","+",",",";","=",":","[","]","<",">"}

\* last position of character c in t, 0 when absent
LastIndexOf(t, c) ==
    IF \E k \in 1..Len(t) : t[k] = c
    THEN SetMax({k \in 1..Len(t) : t[k] = c})
    ELSE 0

\* every '%' of t starts a two-digit hexadecimal escape
PercentOK(t) ==
    \A k \in 1..Len(t) :
        t[k] = "%" => (k + 2 <= Len(t) /\ t[k + 1] \in HexDigit /\ t[k + 2] \in HexDigit)

UpperSeq == <<"A","B","C","D","E","F","G","H","I","J","K","L","M",
              "N","O","P","Q","R","S","T","U","V","W","X","Y","Z">>
LowerSeq == <<"a","b","c","d","e","f","g","h","i","j","k","l","m",
              "n","o","p","q","r","s","t","u","v","w","x","y","z">>

\* strings.ToLower
ToLower(t) ==
    [k \in 1..Len(t) |->
        IF t[k] \in Upper
        THEN LowerSeq[CHOOSE n \in 1..26 : UpperSeq[n] = t[k]]
        ELSE t[k]]

\* url.getScheme: [ok, scheme, rest]
getScheme(rawURL) ==
    LET n  == RunLen(rawURL, 1, Alpha \cup Digit \cup {"+","-","."})
        ok == [ok |-> TRUE, scheme |-> <<>>, rest |-> rawURL]
    IN  IF Len(rawURL) = 0 THEN ok
        ELSE IF rawURL[1] = ":" THEN [ok |-> FALSE, scheme |-> <<>>, rest |-> rawURL]
        ELSE IF rawURL[1] \notin Alpha THEN ok
        ELSE IF n < Len(rawURL) /\ rawURL[n + 1] = ":"
             THEN [ok |-> TRUE, scheme |-> ToLower(SubSeq(rawURL, 1, n)),
                   rest |-> SubSeq(rawURL, n + 2, Len(rawURL))]
             ELSE ok

\* url.parseHost applied to the part of the authority after the user info
hostOK(host) ==
    LET c == LastIndexOf(host, ":")
    IN  /\ \A k \in 1..Len(host) : host[k] \in HostChar
        /\ c # 0 => \A k \in (c + 1)..Len(host) : host[k] \in Digit

\* F(v), with v computed once however often F uses it
With(v, F(_)) == CHOOSE r \in {F(x) : x \in {v}} : TRUE

\* url.parse for the text after "scheme://": the authority up to the first
\* '/', its host after the user info, and the path
parseAuthority(scheme, after) ==
    LET bad == [ok |-> FALSE, scheme |-> <<>>, host |-> <<>>]
    IN  With(IndexOf(after, "/"), LAMBDA sl :
        With(IF sl = 0 THEN after ELSE SubSeq(after, 1, sl - 1), LAMBDA auth :
        With(SubSeq(auth, LastIndexOf(auth, "@") + 1, Len(auth)), LAMBDA host :
            IF hostOK(host) /\ PercentOK(IF sl = 0 THEN <<>> ELSE SubSeq(after, sl, Len(after)))
            THEN [ok |-> TRUE, scheme |-> scheme, host |-> host]
            ELSE bad)))

\* url.parse once the scheme s = [ok, scheme, rest] is split off and the
\* query is cut from rest
parseRest(s, rest) ==
    LET bad == [ok |-> FALSE, scheme |-> <<>>, host |-> <<>>]
    IN  IF ~HasPrefix(rest, <<"/">>)
        THEN IF s.scheme # <<>>
             THEN [ok |-> TRUE, scheme |-> s.scheme, host |-> <<>>]
             ELSE bad
        ELSE IF s.scheme # <<>> /\ HasPrefix(rest, <<"/","/">>)
             THEN With(SubSeq(rest, 3, Len(rest)), LAMBDA after :
                       parseAuthority(s.scheme, after))
        ELSE IF PercentOK(rest)
             THEN [ok |-> TRUE, scheme |-> s.scheme, host |-> <<>>]
             ELSE bad

\* url.ParseRequestURI(rawURL): [ok, scheme, host]
ParseRequestURI(rawURL) ==
    LET bad == [ok |-> FALSE, scheme |-> <<>>, host |-> <<>>]
    IN  IF Len(rawURL) = 0 \/ (\E k \in 1..Len(rawURL) : rawURL[k] \in CtlChar) THEN bad
        ELSE IF rawURL = <<"*">> THEN [ok |-> TRUE, scheme |-> <<>>, host |-> <<>>]
        ELSE With(getScheme(rawURL), LAMBDA s :
                 IF ~s.ok THEN bad
                 ELSE With(IndexOf(s.rest, "?"), LAMBDA q :
                      With(IF q = 0 THEN s.rest ELSE SubSeq(s.rest, 1, q - 1), LAMBDA rest :
                           parseRest(s, rest))))

\* the checks without the test for an empty host
ValidateCompanyURL_NoHostCheck(url) ==
    IF Contains(url, FacebookCom)
    THEN Error(ErrSkippingFacebookURL, url)
    ELSE With(ParseRequestURI(url), LAMBDA parsedURL :
             IF ~parsedURL.ok \/ parsedURL.scheme = <<>>
             THEN Error(ErrInvalidCompanyURL, url)
             ELSE Nil)

\* the checks with "facebook.com" looked for in the host only
ValidateCompanyURL_HostOnly(url) ==
    With(ParseRequestURI(url), LAMBDA parsedURL :
        IF ~parsedURL.ok \/ parsedURL.scheme = <<>> \/ parsedURL.host = <<>>
        THEN Error(ErrInvalidCompanyURL, url)
        ELSE IF Contains(parsedURL.host, FacebookCom)
             THEN Error(ErrSkippingFacebookURL, url)
             ELSE Nil)

\* the two checks in the other order: well-formedness first
ValidateCompanyURL_ParseFirst(url) ==
    With(ParseRequestURI(url), LAMBDA parsedURL :
        IF ~parsedURL.ok \/ parsedURL.scheme = <<>> \/ parsedURL.host = <<>>
        THEN Error(ErrInvalidCompanyURL, url)
        ELSE IF Contains(url, FacebookCom)
             THEN Error(ErrSkippingFacebookURL, url)
             ELSE Nil)

\* the two checks GetCompanyEmail makes before it builds a request
ValidateCompanyURL(url) ==
    IF Contains(url, FacebookCom)
    THEN Error(ErrSkippingFacebookURL, url)
    ELSE With(ParseRequestURI(url), LAMBDA parsedURL :
             IF ~parsedURL.ok \/ parsedURL.scheme = <<>> \/ parsedURL.host = <<>>
             THEN Error(ErrInvalidCompanyURL, url)
             ELSE Nil)

\* http.NewRequestWithContext parses the URL with url.Parse, which also
\* splits off and unescapes a fragment
NewRequestOK(url) ==
    LET h == IndexOf(url, "#")
    IN  h = 0 \/ PercentOK(SubSeq(url, h + 1, Len(url)))

\* http.DefaultClient.Do only has transports for http and https
HTTPSchemes == {<<"h","t","t","p">>, <<"h","t","t","p","s">>}
ClientHasTransport(url) == ParseRequestURI(url).scheme \in HTTPSchemes

----------------------------------------------------------------------------
(* The e-mail pattern [a-zA-Z0-9._%+-]+@[a-zA-Z0-9.-]+\.[a-zA-Z]{2,} with  *)
(* the leftmost-first, greedy semantics of package regexp                  *)

LocalChar  == Alpha \cup Digit \cup {".","_","%","+","-"}
DomainChar == Alpha \cup Digit \cup {".","-"}

\* positions m of the '.' that can end the domain part of a match whose '@'
\* is at k: the domain part k+1..m-1 is not empty and two letters follow m
DomainDots(t, k) ==
    {m \in (k + 2)..(k + RunLen(t, k + 1, DomainChar)) :
        /\ t[m] = "."
        /\ m + 2 <= Len(t)
        /\ t[m + 1] \in Alpha
        /\ t[m + 2] \in Alpha}

\* a match has its '@' at position k of t
MatchAt(t, k) ==
    /\ t[k] = "@"
    /\ BackRunLen(t, k - 1, LocalChar) >= 1
    /\ DomainDots(t, k) # {}

\* the match whose '@' is at k: greedy local part, greedy domain part, greedy
\* top-level label
MatchText(t, k) ==
    LET from == k - BackRunLen(t, k - 1, LocalChar)
        m    == SetMax(DomainDots(t, k))
    IN  SubSeq(t, from, m + RunLen(t, m + 1, Alpha))

\* the extraction returning the last match of the list
ExtractEmail_Last(bodyStr, companyName) ==
    LET ks == {k \in 1..Len(bodyStr) : MatchAt(bodyStr, k)}
    IN  IF ks = {}
        THEN [email |-> <<>>, err |-> Error(ErrNoEmailFound, companyName)]
        ELSE [email |-> MatchText(bodyStr, SetMax(ks)), err |-> Nil]

\* the extraction with a pattern whose local part may be empty
\* ([a-zA-Z0-9._%+-]* in the place of +)
ExtractEmail_EmptyLocal(bodyStr, companyName) ==
    LET ks == {k \in 1..Len(bodyStr) : bodyStr[k] = "@" /\ DomainDots(bodyStr, k) # {}}
    IN  IF ks = {}
        THEN [email |-> <<>>, err |-> Error(ErrNoEmailFound, companyName)]
        ELSE [email |-> MatchText(bodyStr, SetMin(ks)), err |-> Nil]

\* emailRegex.FindAllString(bodyStr, -1) followed by the len(emails) == 0 test
\* and emails[0]
ExtractEmail(bodyStr, companyName) ==
    LET ks == {k \in 1..Len(bodyStr) : MatchAt(bodyStr, k)}
    IN  IF ks = {}
        THEN [email |-> <<>>, err |-> Error(ErrNoEmailFound, companyName)]
        ELSE [email |-> MatchText(bodyStr, SetMin(ks)), err |-> Nil]

\* GetCompanyEmail taking every 2xx status for a success
GetCompanyEmailFinishWith_2xx(resp, ext) ==
    IF resp.transport # "ok"
    THEN [email |-> <<>>, err |-> Error(ErrFetchFailed, <<>>)]
    ELSE IF resp.status \notin 200..299
    THEN [email |-> <<>>, err |-> Error(ErrNonOKStatus, StatusText(resp.status))]
    ELSE IF resp.body.read # "ok"
    THEN [email |-> <<>>, err |-> Error(ErrReadFailed, <<>>)]
    ELSE ext

\* what GetCompanyEmail returns once io.ReadAll gave it bodyStr; ext is the
\* result of the extraction over bodyStr
GetCompanyEmailFinishWith(resp, ext) ==
    IF resp.transport # "ok"
    THEN [email |-> <<>>, err |-> Error(ErrFetchFailed, <<>>)]
    ELSE IF resp.status # StatusOK
    THEN [email |-> <<>>, err |-> Error(ErrNonOKStatus, StatusText(resp.status))]
    ELSE IF resp.body.read # "ok"
    THEN [email |-> <<>>, err |-> Error(ErrReadFailed, <<>>)]
    ELSE ext

\* GetCompanyEmail after http.DefaultClient.Do returned resp; a page body is
\* [read, text], read telling whether io.ReadAll succeeded
GetCompanyEmailFinish(resp, companyName) ==
    GetCompanyEmailFinishWith(resp, ExtractEmail(resp.body.text, companyName))

\* bodyStr of GetCompanyEmail: the text of the page when the response was
\* read to its end, <<>> when GetCompanyEmail returned before that
BodyRead(resp) ==
    IF resp.transport = "ok" /\ resp.status = StatusOK /\ resp.body.read = "ok"
    THEN resp.body.text
    ELSE <<>>

----------------------------------------------------------------------------
(* WriteEmailsToFile *)

\* the line without the blanks around its colon
FormatLine_NoSpaces(companyName, emailText) ==
    companyName \o <<":">> \o emailText \o <<"\n">>

\* fmt.Sprintf("%s : %s\n", companyName, email)
FormatLine(companyName, emailText) ==
    companyName \o <<" ", ":", " ">> \o emailText \o <<"\n">>

\* WriteEmailsToFile with a file that is written from its start on every call
WriteEmailsToFile_Truncating(bytes, companyName, emailText, written) ==
    IF written
    THEN [file |-> FormatLine(companyName, emailText), err |-> Nil]
    ELSE [file |-> bytes, err |-> Error(ErrWriteFileFailed, <<>>)]

\* WriteEmailsToFile(file, companyName, email) when file.WriteString answers
\* written (TRUE) or fails: the bytes of the file afterwards and the error
WriteEmailsToFile(bytes, companyName, emailText, written) ==
    IF written
    THEN [file |-> bytes \o FormatLine(companyName, emailText), err |-> Nil]
    ELSE [file |-> bytes, err |-> Error(ErrWriteFileFailed, <<>>)]

\* GetCompanyEmail up to the point where the request is handed to the
\* default client: the error it returns without a request, or Nil
GetCompanyEmailPrepare(url) ==
    With(ValidateCompanyURL(url), LAMBDA e :
        IF e # Nil THEN e
        ELSE IF ~NewRequestOK(url) THEN Error(ErrFetchFailed, <<>>)
        ELSE Nil)

----------------------------------------------------------------------------
(* The environment: what the input file, the configuration, the search API *)
(* and the fetched pages can hold                                          *)

AcmeCo == <<"A","c","m","e"," ","C","o">>
Blank  == <<>>
Names  == {AcmeCo, Blank}

FileKey == <<"f","k","e","y">>
EnvKey  == <<"e","k","e","y">>

AcmeURL     == <<"h","t","t","p","s",":","/","/","a","c","m","e",".","e","x","a","m","p","l","e",
                 "/","a","b","o","u","t">>
FacebookURL == <<"h","t","t","p","s",":","/","/","f","a","c","e","b","o","o","k",".","c","o","m",
                 "/","s","o","m","e","p","a","g","e">>
NoSchemeURL == <<"a","c","m","e",".","e","x","a","m","p","l","e">>
URLs == {AcmeURL, FacebookURL, NoSchemeURL}

ContactBody == <<"C","o","n","t","a","c","t",":"," ","s","a","l","e","s","@","a","c","m","e",".",
                 "e","x","a","m","p","l","e">>
NoAtBody    == <<"N","o"," ","c","o","n","t","a","c","t">>
TwoBody     == <<"<","a",">","i","n","f","o","@","a",".","c","o",".","u","k",",",
                 "x","@","y",".","i","o">>
PageTexts == {ContactBody, NoAtBody, TwoBody}

\* more links the search API can return: with "facebook.com" somewhere,
\* absolute with a host, and malformed in one way each
FbPath == <<"h","t","t","p","s",":","/","/","a","c","m","e",".","e","x","a","m","p","l","e", "/","f","a","c","e","b","o","o","k",".","c","o","m">>
TextsURL == <<"h","t","t","p",":","/","/","t","e","x","t","s",".","e","x","a","m","p","l","e", "/">>
NoHost == <<"h","t","t","p","s",":","/","/","/","a","b","o","u","t">>
MoreURLs ==
    {<<>>,
     <<"h","t","t","p",":","/","/","f","a","c","e","b","o","o","k",".","c","o","m">>,
     <<"f","t","p",":","/","/","w","w","w",".","f","a","c","e","b","o","o","k",".","c", "o","m","/","x">>,
     FbPath,
     <<"h","t","t","p","s",":","/","/","a","c","m","e",".","e","x","a","m","p","l","e", "/","?","u","=","f","a","c","e","b","o","o","k",".","c","o","m">>,
     <<"f","a","c","e","b","o","o","k",".","c","o","m","/","a","c","m","e">>,
     <<"h","t","t","p","s",":","/","/","F","a","c","e","b","o","o","k",".","c","o","m", "/","a","c","m","e">>,
     <<"h","t","t","p",":","/","/","a","c","m","e",".","e","x","a","m","p","l","e">>,
     <<"h","t","t","p","s",":","/","/","a","c","m","e",".","e","x","a","m","p","l","e", ":","8","0","8","0","/","a","?","b","=","c">>,
     <<"H","T","T","P",":","/","/","a","c","m","e",".","e","x","a","m","p","l","e","/">>,
     <<"f","t","p",":","/","/","a","c","m","e",".","e","x","a","m","p","l","e","/","f">>,
     <<"h","t","t","p","s",":","/","/","u","@","a","c","m","e",".","e","x","a","m","p", "l","e","/">>,
     TextsURL,
     <<"/","a","b","o","u","t">>,
     <<"/","/","a","c","m","e",".","e","x","a","m","p","l","e","/","a","b","o","u","t">>,
     NoHost,
     <<"h","t","t","p",":","/","/">>,
     <<"m","a","i","l","t","o",":","s","a","l","e","s","@","a","c","m","e",".","e","x", "a","m","p","l","e">>,
     <<"h","t","t","p","s",":","a","b","o","u","t">>,
     <<"h","t","t","p",":","/","/","a","c","m","e",".","e","x","a","m","p","l","e","/", "%","z","z">>,
     <<"h","t","t","p",":","/","/","a","c"," ","m","e",".","e","x","a","m","p","l","e", "/">>,
     <<":","a","c","m","e">>,
     <<"h","t","t","p",":","/","/","a","c","m","e",".","e","x","a","m","p","l","e",":", "8","0","a","/">>,
     <<"h","t","t","p",":","/","/","a","c","m","e",".","e","x","a","m","p","l","e","/", "\t">>,
     <<"*">>,
     <<"h","t","t","p",":","/","/","a","c","m","e",".","e","x","a","m","p","l","e","/", "#","x","?","%","z","z">>}
AllURLs == URLs \cup MoreURLs

\* more page bodies, served at TextsURL: the empty page, near misses of the
\* pattern, and pages with one match or several
Shortest == <<"a","@","b",".","c","o">>
TwoInOrder == <<"x"," ","a","@","b",".","c","o"," ","y"," ","c","@","d",".","i","o">>
MoreTexts ==
    {<<>>,
     <<"@">>,
     <<"a","@","b">>,
     <<"a","@","b",".","c">>,
     Shortest,
     TwoInOrder,
     <<"a","@","b",".","c"," ","d","@","e",".","f","r">>,
     <<"@","b",".","c","o">>,
     <<"a","@",".","c","o">>,
     <<"a","@",".",".","c","o">>,
     <<"a","@","b",".","c","o",".","u","k","1">>,
     <<"a",".","b","%","c","+","d","-","e","_","f","@","g","-","h",".","i","j">>,
     <<"A","@","B",".","C","D">>,
     <<"a","@","b","@","c",".","d","e">>,
     <<"a","@","b",".","c","o",".","1","x">>,
     <<"a","@","b",".","c","d","e",".","f">>,
     <<"<","a"," ","h","r","e","f","=","\"","m","a","i","l","t","o",":","a","@","b",".", "c","o","\"",">">>,
     <<"a","b","@","c",".","d","e">>}
AllTexts == PageTexts \cup MoreTexts
\* the bodies the server behind url can send
TextsAt(url) == IF url = TextsURL THEN AllTexts ELSE PageTexts


Statuses == {200, 201, 404}

\* all sequences over S of length 0..n
RECURSIVE SeqsUpTo(_, _)
SeqsUpTo(S, n) ==
    IF n = 0 THEN {<<>>}
    ELSE LET shorter == SeqsUpTo(S, n - 1)
         IN  shorter \cup {Append(q, x) : q \in shorter, x \in S}

\* the file whose lines are the elements of l, each ended by a newline
RECURSIVE FileOf(_)
FileOf(l) ==
    IF l = <<>> THEN <<>> ELSE Head(l) \o <<"\n">> \o FileOf(Tail(l))

\* the lists of names the input file holds: up to MaxCompanies lines, either
\* the same name on every line or a blank line alternating with a name
NameLists ==
    UNION {{[k \in 1..n |-> AcmeCo],
            [k \in 1..n |-> IF k % 2 = 1 THEN Blank ELSE AcmeCo]} : n \in 0..MaxCompanies}

\* a file with CR LF line ends, a blank first line, and no line end after
\* its last line
CRLFFile == <<"\r", "\n">> \o AcmeCo

InputFiles == {Unreadable, CRLFFile} \cup {FileOf(l) : l \in NameLists}

\* the configurations main() runs under: no key at all, a config file that
\* cannot be read (with and without a key in the environment), a key in the
\* config file
Environments ==
    {[cfg |-> CfgMissing,          env |-> <<>>],
     [cfg |-> CfgMalformed,        env |-> <<>>],
     [cfg |-> CfgMalformed,        env |-> EnvKey],
     [cfg |-> CfgWithKey(FileKey), env |-> <<>>]}

NoBody == [kind |-> "none", organic |-> <<>>, read |-> "none", text |-> <<>>]
TransportFailures ==
    {[transport |-> t, status |-> 0, body |-> NoBody] : t \in {"neterr", "timeout"}}

SearchBody(k, o) == [kind |-> k, organic |-> o, read |-> "ok", text |-> <<>>]
SearchBodies ==
    {SearchBody(k, <<>>) : k \in {"garbage", "wrongtype"}}
    \cup {SearchBody("json", o) : o \in SeqsUpTo(URLs, MaxOrganic)}
\* the bodies that come with a status other than 200: no JSON, or a result
ErrorBodies == {SearchBody("garbage", <<>>), SearchBody("json", <<AcmeURL>>)}
SearchResponses ==
    TransportFailures
    \cup {[transport |-> "ok", status |-> StatusOK, body |-> b] : b \in SearchBodies}
    \cup {[transport |-> "ok", status |-> st, body |-> b] :
             st \in Statuses \ {StatusOK}, b \in ErrorBodies}

PageBodies(texts) ==
    {[kind |-> "page", organic |-> <<>>, read |-> "err", text |-> <<>>]}
    \cup {[kind |-> "page", organic |-> <<>>, read |-> "ok", text |-> t] : t \in texts}
\* a URL without an http transport never gets past the client
PageResponses(url) ==
    IF ClientHasTransport(url)
    THEN TransportFailures
         \cup {[transport |-> "ok", status |-> st, body |-> b] : st \in Statuses, b \in PageBodies(TextsAt(url))}
    ELSE {[transport |-> "neterr", status |-> 0, body |-> NoBody]}

\* The functions of the text of the environment, tabulated once over the
\* texts above
NamesRead   == [f \in InputFiles |-> ReadCompanyNames(f)]
Prepared    == [u \in AllURLs \cup {<<>>} |-> GetCompanyEmailPrepare(u)]
AnswersTo   == [u \in AllURLs \cup {<<>>} |-> PageResponses(u)]
ExtractedIn == [t \in AllTexts |-> [n \in Names |-> ExtractEmail(t, n)]]
Validated   == [u \in AllURLs |-> ValidateCompanyURL(u)]

----------------------------------------------------------------------------
(* main() *)

\* a finished call of main() into the scraper package: its arguments, what
\* it returned, and the bodyStr it searched for an e-mail (<<>> when it did
\* not get that far)
Call(fn, pos, name, url, emailText, e, body) ==
    [fn |-> fn, pos |-> pos, name |-> name, url |-> url, email |-> emailText,
     err |-> e, body |-> body]

NoResponse == [transport |-> "none", status |-> 0, body |-> NoBody]

Request(kind, pos, q, key, url) ==
    [kind |-> kind, pos |-> pos, q |-> q, api_key |-> key, url |-> url]

\* a reported line: the stream, the loop position, the company name it
\* carries (named tells whether it carries one) and the error it carries
LogLine(stream, pos, named, name, e) ==
    [stream |-> stream, pos |-> pos, named |-> named, name |-> name, reason |-> e]

\* output[name] = url
MapSet(m, name, url) ==
    [n \in (DOMAIN m) \cup {name} |-> IF n = name THEN url ELSE m[n]]

EmptyMap == [n \in {} |-> <<>>]

Init ==
    /\ pc = "read"
    /\ inputFile \in InputFiles
    /\ \E e \in Environments : cfgFile = e.cfg /\ envKey = e.env
    /\ companyNames = <<>>
    /\ i = 0
    /\ output = EmptyMap
    /\ file = <<>>
    /\ companyURL = <<>>
    /\ email = <<>>
    /\ err = Nil
    /\ inflight = "none"
    /\ response = NoResponse
    /\ requests = <<>>
    /\ calls = <<>>
    /\ logs = <<>>

\* main.go 14-18: read the names; log.Fatalf ends the run when that fails
ReadNames ==
    /\ pc = "read"
    /\ LET r == NamesRead[inputFile]
       IN  IF r.ok
           THEN /\ companyNames' = r.names
                /\ pc' = "create"
                /\ logs' = logs
           ELSE /\ companyNames' = companyNames
                /\ pc' = "fatal"
                /\ logs' = Append(logs, LogLine("log", 0, FALSE, <<>>,
                                                Error("Error reading input file", <<>>)))
    /\ UNCHANGED <<inputFile, cfgFile, envKey, i, output, file, companyURL, email, err,
                   inflight, response, requests, calls>>

\* the creation of the output file with a failure that is logged and not
\* fatal
CreateOutput_Continue ==
    /\ pc = "create"
    /\ \E created \in BOOLEAN :
          logs' = IF created
                  THEN logs
                  ELSE Append(logs, LogLine("log", 0, FALSE, <<>>,
                                            Error("Failed to create output file", <<>>)))
    /\ file' = <<>>
    /\ pc' = "loop"
    /\ i' = 1
    /\ UNCHANGED <<inputFile, cfgFile, envKey, companyNames, output, companyURL, email, err,
                   inflight, response, requests, calls>>

\* main.go 21-29: create the output file; log.Fatalf ends the run when that
\* fails
CreateOutput ==
    /\ pc = "create"
    /\ \E created \in BOOLEAN :
          IF created
          THEN /\ file' = <<>>
               /\ pc' = "loop"
               /\ i' = 1
               /\ logs' = logs
          ELSE /\ file' = file
               /\ pc' = "fatal"
               /\ i' = i
               /\ logs' = Append(logs, LogLine("log", 0, FALSE, <<>>,
                                               Error("Failed to create output file", <<>>)))
    /\ UNCHANGED <<inputFile, cfgFile, envKey, companyNames, output, companyURL, email, err,
                   inflight, response, requests, calls>>

\* the error branch with a break in the place of its continue
SearchFailed_Break(e) ==
    /\ logs' = Append(logs, LogLine("log", i, TRUE, companyNames[i], e))
    /\ output' = MapSet(output, companyNames[i], <<>>)
    /\ companyURL' = <<>>
    /\ err' = Nil
    /\ i' = i
    /\ pc' = "done"

\* the error branch without its continue: the loop body goes on to the e-mail
SearchFailed_FallThrough(e) ==
    /\ logs' = Append(logs, LogLine("log", i, TRUE, companyNames[i], e))
    /\ output' = MapSet(output, companyNames[i], <<>>)
    /\ companyURL' = <<>>
    /\ err' = Nil
    /\ i' = i
    /\ pc' = "email"

\* main.go 35-39: GetSearchResults returned the error e for companyNames[i]
SearchFailed(e) ==
    /\ logs' = Append(logs, LogLine("log", i, TRUE, companyNames[i], e))
    /\ output' = MapSet(output, companyNames[i], <<>>)
    /\ companyURL' = <<>>
    /\ err' = Nil
    /\ i' = i + 1
    /\ pc' = "loop"

\* main.go 40: GetSearchResults returned url for companyNames[i]
SearchSucceeded(url) ==
    /\ output' = MapSet(output, companyNames[i], url)
    /\ companyURL' = url
    /\ err' = Nil
    /\ i' = i
    /\ pc' = "email"
    /\ logs' = logs

\* main.go 31-39: GetSearchResults returns before it sends a request
SearchWithoutRequest ==
    /\ pc = "loop"
    /\ i <= Len(companyNames)
    /\ LET p == GetSearchResultsPrepare(cfgFile, envKey, companyNames[i])
       IN  /\ p.err # Nil
           /\ calls' = Append(calls, Call("GetSearchResults", i, companyNames[i],
                                          <<>>, <<>>, p.err, <<>>))
           /\ SearchFailed(p.err)
    /\ response' = NoResponse
    /\ UNCHANGED <<inputFile, cfgFile, envKey, companyNames, file, email, inflight, requests>>

\* GetSearchResults answering from the output map when the name was resolved
\* before
SearchSend_Cached ==
    /\ pc = "loop"
    /\ i <= Len(companyNames)
    /\ GetSearchResultsPrepare(cfgFile, envKey, companyNames[i]).err = Nil
    /\ IF companyNames[i] \in DOMAIN output
       THEN /\ requests' = requests
            /\ inflight' = "none"
            /\ response' = [transport |-> "ok", status |-> StatusOK,
                            body |-> [kind |-> "json", organic |-> <<output[companyNames[i]]>>,
                                      read |-> "ok", text |-> <<>>]]
       ELSE /\ requests' = Append(requests, Request("search", i, companyNames[i],
                                                    ViperGetAPIKey(cfgFile, envKey), <<>>))
            /\ inflight' = "search"
            /\ response' = NoResponse
    /\ pc' = "searching"
    /\ UNCHANGED <<inputFile, cfgFile, envKey, companyNames, i, output, file, companyURL,
                   email, err, calls, logs>>

\* GetSearchResults sending the request of the next name together with its
\* own, as a fan-out over the list would
SearchSend_FanOut ==
    /\ pc = "loop"
    /\ i <= Len(companyNames)
    /\ LET p == GetSearchResultsPrepare(cfgFile, envKey, companyNames[i])
           q == Append(requests, Request("search", i, p.req.q, p.req.api_key, <<>>))
       IN  /\ p.err = Nil
           /\ requests' = IF i < Len(companyNames)
                          THEN Append(q, Request("search", i + 1, companyNames[i + 1],
                                                 p.req.api_key, <<>>))
                          ELSE q
    /\ inflight' = "search"
    /\ response' = NoResponse
    /\ pc' = "searching"
    /\ UNCHANGED <<inputFile, cfgFile, envKey, companyNames, i, output, file, companyURL,
                   email, err, calls, logs>>

\* main.go 31-34: GetSearchResults hands its request to the client
SearchSend ==
    /\ pc = "loop"
    /\ i <= Len(companyNames)
    /\ LET p == GetSearchResultsPrepare(cfgFile, envKey, companyNames[i])
       IN  /\ p.err = Nil
           /\ requests' = Append(requests, Request("search", i, p.req.q, p.req.api_key, <<>>))
    /\ inflight' = "search"
    /\ response' = NoResponse
    /\ pc' = "searching"
    /\ UNCHANGED <<inputFile, cfgFile, envKey, companyNames, i, output, file, companyURL,
                   email, err, calls, logs>>

\* the search API answers the request in flight, or the request fails or
\* runs into its 10 second timeout
SearchAnswer ==
    /\ inflight = "search"
    /\ response' \in SearchResponses
    /\ inflight' = "none"
    /\ UNCHANGED <<pc, inputFile, cfgFile, envKey, companyNames, i, output, file, companyURL,
                   email, err, requests, calls, logs>>

\* GetSearchResults with a client that stays broken once a request of an
\* earlier company failed
SearchResponse_AfterTimeout ==
    /\ pc = "searching"
    /\ inflight = "none"
    /\ LET broken == \E k \in DOMAIN calls : calls[k].err # Nil /\ calls[k].pos < i
           r == IF broken
                THEN [url |-> <<>>, err |-> Error(ErrRequestFailed, <<>>)]
                ELSE GetSearchResultsFinish(response, companyNames[i])
       IN  /\ calls' = Append(calls, Call("GetSearchResults", i, companyNames[i],
                                          r.url, <<>>, r.err, <<>>))
           /\ IF r.err # Nil THEN SearchFailed(r.err) ELSE SearchSucceeded(r.url)
    /\ UNCHANGED <<inputFile, cfgFile, envKey, companyNames, file, email, inflight, response,
                   requests>>

\* main.go 32-40: client.Do returns and GetSearchResults runs to its end
SearchResponse ==
    /\ pc = "searching"
    /\ inflight = "none"
    /\ LET r == GetSearchResultsFinish(response, companyNames[i])
       IN  /\ calls' = Append(calls, Call("GetSearchResults", i, companyNames[i],
                                          r.url, <<>>, r.err, <<>>))
           /\ IF r.err # Nil THEN SearchFailed(r.err) ELSE SearchSucceeded(r.url)
    /\ UNCHANGED <<inputFile, cfgFile, envKey, companyNames, file, email, inflight, response,
                   requests>>

\* GetCompanyEmail called a second time for the same company when its first
\* call failed
EmailReturned_Retry(emailText, e) ==
    /\ email' = emailText
    /\ err' = e
    /\ logs' = IF e # Nil
               THEN Append(logs, LogLine("stdout", i, FALSE, <<>>, e))
               ELSE logs
    /\ companyURL' = companyURL
    /\ i' = i
    /\ pc' = IF e # Nil /\ \A k \in DOMAIN calls : calls[k].fn = "GetCompanyEmail" => calls[k].pos # i
             THEN "email"
             ELSE "write"

\* the error branch with a continue, as in the logrus variant of main()
EmailReturned_Continue(emailText, e) ==
    /\ email' = emailText
    /\ err' = e
    /\ logs' = IF e # Nil
               THEN Append(logs, LogLine("stdout", i, FALSE, <<>>, e))
               ELSE logs
    /\ companyURL' = companyURL
    /\ i' = IF e # Nil THEN i + 1 ELSE i
    /\ pc' = IF e # Nil THEN "loop" ELSE "write"

\* main.go 42-45: GetCompanyEmail returned (emailText, e); a non-nil error is
\* printed and the loop body goes on to the write
EmailReturned(emailText, e) ==
    /\ email' = emailText
    /\ err' = e
    /\ logs' = IF e # Nil
               THEN Append(logs, LogLine("stdout", i, FALSE, <<>>, e))
               ELSE logs
    /\ companyURL' = companyURL
    /\ i' = i
    /\ pc' = "write"

\* main.go 42-45: GetCompanyEmail returns before it sends a request
EmailWithoutRequest ==
    /\ pc = "email"
    /\ LET e == Prepared[companyURL]
       IN  /\ e # Nil
           /\ calls' = Append(calls, Call("GetCompanyEmail", i, companyNames[i],
                                          companyURL, <<>>, e, <<>>))
           /\ EmailReturned(<<>>, e)
    /\ response' = NoResponse
    /\ UNCHANGED <<inputFile, cfgFile, envKey, companyNames, output, file, inflight, requests>>

\* GetCompanyEmail handing its request to the client whatever the URL is
EmailSend_Unchecked ==
    /\ pc = "email"
    /\ requests' = Append(requests, Request("page", i, <<>>, <<>>, companyURL))
    /\ inflight' = "page"
    /\ response' = NoResponse
    /\ pc' = "fetching"
    /\ UNCHANGED <<inputFile, cfgFile, envKey, companyNames, i, output, file, companyURL,
                   email, err, calls, logs>>

\* main.go 42: GetCompanyEmail hands its request to http.DefaultClient
EmailSend ==
    /\ pc = "email"
    /\ Prepared[companyURL] = Nil
    /\ requests' = Append(requests, Request("page", i, <<>>, <<>>, companyURL))
    /\ inflight' = "page"
    /\ response' = NoResponse
    /\ pc' = "fetching"
    /\ UNCHANGED <<inputFile, cfgFile, envKey, companyNames, i, output, file, companyURL,
                   email, err, calls, logs>>

\* the web server answers the request in flight, or the request fails or
\* runs into its 10 second timeout
PageAnswer ==
    /\ inflight = "page"
    /\ response' \in AnswersTo[companyURL]
    /\ inflight' = "none"
    /\ UNCHANGED <<pc, inputFile, cfgFile, envKey, companyNames, i, output, file, companyURL,
                   email, err, requests, calls, logs>>

\* GetCompanyEmail returning the e-mail an earlier call found, when there is
\* one
PageResponse_Remembering ==
    /\ pc = "fetching"
    /\ inflight = "none"
    /\ LET r    == GetCompanyEmailFinishWith(response,
                                             ExtractedIn[response.body.text][companyNames[i]])
           seen == {k \in DOMAIN calls : calls[k].fn = "GetCompanyEmail" /\ calls[k].email # <<>>}
           e    == IF r.err = Nil /\ seen # {} THEN calls[SetMin(seen)].email ELSE r.email
       IN  /\ calls' = Append(calls, Call("GetCompanyEmail", i, companyNames[i],
                                          companyURL, e, r.err, BodyRead(response)))
           /\ EmailReturned(e, r.err)
    /\ UNCHANGED <<inputFile, cfgFile, envKey, companyNames, output, file, inflight, response,
                   requests>>

\* main.go 42-45: http.DefaultClient.Do returns and GetCompanyEmail runs to
\* its end
PageResponse ==
    /\ pc = "fetching"
    /\ inflight = "none"
    /\ LET r == GetCompanyEmailFinishWith(response,
                                          ExtractedIn[response.body.text][companyNames[i]])
       IN  /\ calls' = Append(calls, Call("GetCompanyEmail", i, companyNames[i],
                                          companyURL, r.email, r.err,
                                          BodyRead(response)))
           /\ EmailReturned(r.email, r.err)
    /\ UNCHANGED <<inputFile, cfgFile, envKey, companyNames, output, file, inflight, response,
                   requests>>

\* the write with companyURL in the place of email
WriteEmails_WritesURL ==
    /\ pc = "write"
    /\ \E written \in BOOLEAN :
          LET w == WriteEmailsToFile(file, companyNames[i], companyURL, written)
          IN  /\ file' = w.file
              /\ calls' = Append(calls, Call("WriteEmailsToFile", i, companyNames[i],
                                             companyURL, email, w.err, <<>>))
    /\ companyURL' = <<>>
    /\ email' = <<>>
    /\ err' = Nil
    /\ i' = i + 1
    /\ pc' = "loop"
    /\ response' = NoResponse
    /\ UNCHANGED <<inputFile, cfgFile, envKey, companyNames, output, inflight, requests, logs>>

\* the write with its error logged under the company's name
WriteEmails_Logged ==
    /\ pc = "write"
    /\ \E written \in BOOLEAN :
          LET w == WriteEmailsToFile(file, companyNames[i], email, written)
          IN  /\ file' = w.file
              /\ calls' = Append(calls, Call("WriteEmailsToFile", i, companyNames[i],
                                             companyURL, email, w.err, <<>>))
              /\ logs' = IF w.err # Nil
                         THEN Append(logs, LogLine("log", i, TRUE, companyNames[i], w.err))
                         ELSE logs
    /\ companyURL' = <<>>
    /\ email' = <<>>
    /\ err' = Nil
    /\ i' = i + 1
    /\ pc' = "loop"
    /\ response' = NoResponse
    /\ UNCHANGED <<inputFile, cfgFile, envKey, companyNames, output, inflight, requests>>

\* main.go 47-49: WriteEmailsToFile; its result is dropped and the loop goes
\* to the next name
WriteEmails ==
    /\ pc = "write"
    /\ \E written \in BOOLEAN :
          LET w == WriteEmailsToFile(file, companyNames[i], email, written)
          IN  /\ file' = w.file
              /\ calls' = Append(calls, Call("WriteEmailsToFile", i, companyNames[i],
                                             companyURL, email, w.err, <<>>))
    /\ companyURL' = <<>>
    /\ email' = <<>>
    /\ err' = Nil
    /\ i' = i + 1
    /\ pc' = "loop"
    /\ response' = NoResponse
    /\ UNCHANGED <<inputFile, cfgFile, envKey, companyNames, output, inflight, requests, logs>>

\* a range that stops one name short
Finish_Early ==
    /\ pc = "loop"
    /\ i >= Len(companyNames)
    /\ pc' = "done"
    /\ response' = NoResponse
    /\ UNCHANGED <<inputFile, cfgFile, envKey, companyNames, i, output, file, companyURL,
                   email, err, inflight, requests, calls, logs>>

\* main.go 31, 51: the range is exhausted and main returns
Finish ==
    /\ pc = "loop"
    /\ i > Len(companyNames)
    /\ pc' = "done"
    /\ response' = NoResponse
    /\ UNCHANGED <<inputFile, cfgFile, envKey, companyNames, i, output, file, companyURL,
                   email, err, inflight, requests, calls, logs>>

Next ==
    \/ ReadNames
    \/ CreateOutput
    \/ SearchWithoutRequest
    \/ SearchSend
    \/ SearchAnswer
    \/ SearchResponse
    \/ EmailWithoutRequest
    \/ EmailSend
    \/ PageAnswer
    \/ PageResponse
    \/ WriteEmails
    \/ Finish

Spec == Init /\ [][Next]_vars

\* main() is one sequential thread and every request carries a 10 second
\* timeout, so a step that is possible is eventually taken
FairSpec == Spec /\ WF_vars(Next)

\* main() with "Acme Co" as its only name, at the point where
\* GetSearchResults has returned the first link u of the API's answer
Resolved(u) ==
    /\ pc = "email"
    /\ inputFile = FileOf(<<AcmeCo>>)
    /\ cfgFile = CfgWithKey(FileKey)
    /\ envKey = <<>>
    /\ companyNames = <<AcmeCo>>
    /\ i = 1
    /\ output = MapSet(EmptyMap, AcmeCo, u)
    /\ file = <<>>
    /\ companyURL = u
    /\ email = <<>>
    /\ err = Nil
    /\ inflight = "none"
    /\ response = [transport |-> "ok", status |-> StatusOK, body |-> SearchBody("json", <<u>>)]
    /\ requests = <<Request("search", 1, AcmeCo, FileKey, <<>>)>>
    /\ calls = <<Call("GetSearchResults", 1, AcmeCo, u, <<>>, Nil, <<>>)>>
    /\ logs = <<>>

InitResolved == \E u \in AllURLs : Resolved(u)

\* the rest of that run: GetCompanyEmail, the write and the end of main()
NextResolved ==
    \/ EmailWithoutRequest
    \/ EmailSend
    \/ PageAnswer
    \/ PageResponse
    \/ WriteEmails
    \/ Finish

\* main() from GetCompanyEmail on, over every link and every page of the
\* environment
EmailSpec == InitResolved /\ [][NextResolved]_vars

\* main() with "Acme Co" as its only name, under every combination of a
\* config file - missing, unreadable, with a key, with an empty key - and
\* SERPAPI_KEY unset or set
InitKeys ==
    /\ pc = "read"
    /\ inputFile = FileOf(<<AcmeCo>>)
    /\ cfgFile \in {CfgMissing, CfgMalformed, CfgWithKey(FileKey), CfgWithKey(<<>>)}
    /\ envKey \in {<<>>, EnvKey}
    /\ companyNames = <<>>
    /\ i = 0
    /\ output = EmptyMap
    /\ file = <<>>
    /\ companyURL = <<>>
    /\ email = <<>>
    /\ err = Nil
    /\ inflight = "none"
    /\ response = NoResponse
    /\ requests = <<>>
    /\ calls = <<>>
    /\ logs = <<>>

\* main() over every configuration of the key
KeySpec == InitKeys /\ [][Next]_vars

----------------------------------------------------------------------------
(* Vocabulary of the properties *)

Positions == 1..Len(companyNames)

InLoop == {"loop", "searching", "email", "fetching", "write"}

\* the finished calls of fn for the company at position p
CallsOf(fn, p) == {k \in DOMAIN calls : calls[k].fn = fn /\ calls[k].pos = p}

\* main() called GetSearchResults for position p and the call returned
SearchCalled(p) == CallsOf("GetSearchResults", p) # {}

\* some stage failed for position p
StageFailed(p) == \E k \in DOMAIN calls : calls[k].pos = p /\ calls[k].err # Nil

\* the loop body has run to its end for position p
Processed(p) ==
    /\ SearchCalled(p)
    /\ \A k \in CallsOf("GetSearchResults", p) :
          calls[k].err = Nil =>
              /\ CallsOf("GetCompanyEmail", p) # {}
              /\ CallsOf("WriteEmailsToFile", p) # {}

IsWrite(c) == c.fn = "WriteEmailsToFile" /\ c.err = Nil

\* the calls of WriteEmailsToFile that returned nil, in the order they were made
Written == SelectSeq(calls, IsWrite)

Separator == <<" ", ":", " ">>

\* the lines a reader of the output file gets
FileLines == ScanLines(file)

\* the lines of the output file that the writes for position p put there
LinesOf(p) ==
    {FileLines[k] : k \in {n \in DOMAIN Written : n <= Len(FileLines) /\ Written[n].pos = p}}

\* the number of those lines
LineCount(p) ==
    Cardinality({n \in DOMAIN Written : n <= Len(FileLines) /\ Written[n].pos = p})

\* GetSearchResults returned a URL for position p
SearchOK(p) == \E k \in CallsOf("GetSearchResults", p) : calls[k].err = Nil

\* GetSearchResults returned an error for position p
SearchErr(p) == \E k \in CallsOf("GetSearchResults", p) : calls[k].err # Nil

\* GetCompanyEmail returned an error for position p
EmailFailed(p) == \E k \in CallsOf("GetCompanyEmail", p) : calls[k].err # Nil

\* GetCompanyEmail returned an e-mail for position p
EmailOK(p) == \E k \in CallsOf("GetCompanyEmail", p) : calls[k].err = Nil

\* WriteEmailsToFile returned nil for position p
WriteOK(p) == \E k \in CallsOf("WriteEmailsToFile", p) : calls[k].err = Nil

\* the loop has gone past position p
Past(p) == p \in Positions /\ pc \in InLoop \cup {"done"} /\ i > p

\* the call that returned last
LastCall == calls[Len(calls)]

\* a step in which a call of fn returns
Returns(fn) == Len(calls') = Len(calls) + 1 /\ calls'[Len(calls')].fn = fn

\* the key viper serves in this run is the empty string
KeyEmpty == ViperGetAPIKey(cfgFile, envKey) = <<>>

\* the requests sent for position p
RequestsOf(kind, p) == {r \in DOMAIN requests : requests[r].kind = kind /\ requests[r].pos = p}

\* the link GetSearchResults returned in a run of EmailSpec
ResolvedURL == calls[1].url

\* GetCompanyEmail has returned in a run of EmailSpec
EmailDone == Len(calls) >= 2 /\ calls[2].fn = "GetCompanyEmail"

\* the characters of a URL that need no escape and end neither authority nor path
PlainChar == Alpha \cup Digit \cup {"-", ".", "_", "~"}

\* u is scheme "://" authority, optional path and query, with a host of
\* letters, digits, dots and dashes, an optional user and an optional numeric
\* port, and nothing in it that would need an escape
WellFormedAbsolute(u) ==
    \E k \in 2..(Len(u) - 3) :
        /\ \A j \in 1..(k - 1) : u[j] \in Alpha
        /\ SubSeq(u, k, k + 2) = <<":", "/", "/">>
        /\ \E e \in (k + 3)..Len(u) :
              \* the authority is u[k+3..e]
              /\ e = Len(u) \/ u[e + 1] \in {"/", "?"}
              /\ \E h \in (k + 3)..e, g \in (k + 3)..e :
                    \* user "@" before h, the host is u[h..g], ":" port after g
                    /\ h <= g
                    /\ \A j \in h..g : u[j] \in PlainChar
                    /\ h = k + 3 \/ (u[h - 1] = "@" /\ \A j \in (k + 3)..(h - 2) : u[j] \in PlainChar)
                    /\ g = e \/ (g + 2 <= e /\ u[g + 1] = ":" /\ \A j \in (g + 2)..e : u[j] \in Digit)
              /\ \A j \in (e + 1)..Len(u) : u[j] \in PlainChar \cup {"/", "?", "=", "&"}

\* the position of the ':' that ends the scheme of u, 0 when u has no scheme
SchemeEnd(u) ==
    LET k == IndexOf(u, ":")
    IN  IF /\ k >= 2
           /\ u[1] \in Alpha
           /\ \A j \in 1..(k - 1) : u[j] \in Alpha \cup Digit \cup {"+", "-", "."}
        THEN k
        ELSE 0

\* u has no scheme, or no host behind its scheme
MissingSchemeOrHost(u) ==
    LET k == SchemeEnd(u)
    IN  \/ k = 0
        \/ ~(/\ k + 3 <= Len(u)
             /\ SubSeq(u, k + 1, k + 2) = <<"/", "/">>
             /\ u[k + 3] \notin {"/", "?"})

\* GetCompanyEmail has just returned for the response it got from the client
Fetched ==
    /\ pc = "write"
    /\ Len(calls) > 0
    /\ LastCall.fn = "GetCompanyEmail"
    /\ response # NoResponse

\* the call c of GetCompanyEmail got as far as the extraction
Extracted(c) == c.fn = "GetCompanyEmail" /\ c.err.kind \in {NoError, ErrNoEmailFound}

\* t[a..b] is a local part, '@', a domain part, '.', and two letters or more
IsMatch(t, a, b) ==
    \E k \in {x \in 1..Len(t) : t[x] = "@"}, m \in {x \in 1..Len(t) : t[x] = "."} :
        /\ 1 <= a /\ a < k /\ k + 1 < m /\ m + 2 <= b /\ b <= Len(t)
        /\ \A j \in a..(k - 1) : t[j] \in LocalChar
        /\ \A j \in (k + 1)..(m - 1) : t[j] \in DomainChar
        /\ \A j \in (m + 1)..b : t[j] \in Alpha

\* the pairs <<a, b>> for which t[a..b] matches the pattern, for every page
\* of the environment
MatchSpans ==
    [t \in AllTexts |-> {ab \in (1..Len(t)) \X (1..Len(t)) : IsMatch(t, ab[1], ab[2])}]

\* the lines l, each followed by the line end eol
RECURSIVE Unlines(_, _)
Unlines(l, eol) ==
    IF l = <<>> THEN <<>> ELSE Head(l) \o eol \o Unlines(Tail(l), eol)

\* the text f is the lines l in their order, with LF or CR LF line ends, the
\* last of which may be missing
HoldsLines(f, l) ==
    \E eol \in {<<"\n">>, <<"\r", "\n">>} :
        \/ f = Unlines(l, eol)
        \/ l # <<>> /\ l[Len(l)] # <<>> /\ f \o eol = Unlines(l, eol)

\* what log.Fatalf reports for the two failures that end the run
FatalReasons == {"Error reading input file", "Failed to create output file"}

\* the stage in which the call c of GetSearchResults or GetCompanyEmail
\* failed: resolution, the two checks of the URL, the request with its
\* status and body, or the search for an e-mail
FailedStage(c) ==
    IF c.fn = "GetSearchResults" THEN "Resolving"
    ELSE IF c.err.kind \in {ErrSkippingFacebookURL, ErrInvalidCompanyURL} THEN "Validating"
    ELSE IF c.err.kind = ErrNoEmailFound THEN "Extracting"
    ELSE "Fetching"

\* how the company at position p ended: the stages that failed for it, and
\* "Recorded" when all four succeeded and the write was reached
Outcomes(p) ==
    {FailedStage(calls[k]) :
        k \in {n \in CallsOf("GetSearchResults", p) \cup CallsOf("GetCompanyEmail", p) :
                  calls[n].err # Nil}}
    \cup (IF EmailOK(p) /\ CallsOf("WriteEmailsToFile", p) # {} THEN {"Recorded"} ELSE {})

\* the requests whose call has not returned yet: a search request until
\* GetSearchResults returns for its position, a page request until
\* GetCompanyEmail does
Outstanding ==
    {r \in DOMAIN requests :
        CallsOf(IF requests[r].kind = "search" THEN "GetSearchResults" ELSE "GetCompanyEmail",
                requests[r].pos) = {}}

\* the URL GetSearchResults returned for position p, <<>> without one
OwnURL(p) ==
    IF SearchOK(p)
    THEN calls[CHOOSE k \in CallsOf("GetSearchResults", p) : calls[k].err = Nil].url
    ELSE <<>>

\* the e-mail GetCompanyEmail returned for position p, <<>> without one
OwnEmail(p) ==
    IF EmailOK(p)
    THEN calls[CHOOSE k \in CallsOf("GetCompanyEmail", p) : calls[k].err = Nil].email
    ELSE <<>>

\* the reported line l carries the name of the company at its position: as
\* the argument of log.Printf, or inside the text of the error
NamesCompany(l) ==
    /\ l.pos \in Positions
    /\ \/ l.named /\ l.name = companyNames[l.pos]
       \/ l.reason.detail = companyNames[l.pos] /\ l.reason.kind \in {ErrNoResultsFound, ErrNoEmailFound}

SalesAtAcme == <<"s","a","l","e","s","@","a","c","m","e",".","e","x","a","m","p","l","e">>

----------------------------------------------------------------------------
(* C1: whatever stage fails for the company at position p - search,        *)
(* validation, fetch, extraction or write - the loop goes on: once the     *)
(* loop is running, GetSearchResults is eventually called for every        *)
(* position of the list, so a failure at position p never keeps the search *)
(* for position p+1 from being issued.                                     *)
C1_EveryCompanySearched ==
    \A p \in 1..MaxCompanies :
        (pc = "loop" /\ p <= Len(companyNames)) ~> SearchCalled(p)

\* the e-mail stage and the write both failed for the first company and the
\* search for the second one was made
C1_Witness ==
    /\ \E k \in CallsOf("GetCompanyEmail", 1) : calls[k].err # Nil
    /\ \E k \in CallsOf("WriteEmailsToFile", 1) : calls[k].err # Nil
    /\ SearchCalled(2)

(* C2: the run ends, and the per-company loop is only ever left for the    *)
(* end of main() with every position of the list processed: there is no    *)
(* early exit from the loop.                                               *)
C2_TerminatesAfterLast ==
    /\ <>(pc \in {"done", "fatal"})
    /\ [][(pc \in InLoop /\ pc' \notin InLoop) =>
            (pc' = "done" /\ \A p \in 1..Len(companyNames') : Processed(p)')]_vars

\* main() returned after a list of MaxCompanies names in which a stage failed
C2_Witness ==
    /\ pc = "done"
    /\ Len(companyNames) = MaxCompanies
    /\ StageFailed(1)

(* C3: the output file only grows, by one line per successful write, and   *)
(* the lines follow input order: the k-th line of the file starts with the *)
(* name at the position of the k-th successful write, these positions      *)
(* increase strictly (so no position has two lines), and every step keeps  *)
(* the bytes already in the file.                                          *)
C3_AppendInInputOrder ==
    /\ [](/\ Len(FileLines) = Len(Written)
          /\ \A k \in DOMAIN Written :
                /\ Written[k].pos \in Positions
                /\ HasPrefix(FileLines[k], companyNames[Written[k].pos] \o Separator)
          /\ \A k, l \in DOMAIN Written : k < l => Written[k].pos < Written[l].pos)
    /\ [][HasPrefix(file', file)]_vars

\* two companies have their lines in the file
C3_Witness == Len(FileLines) = 2 /\ Len(Written) = 2 /\ pc = "done"

C6_AppendsExactLine ==
    [][Returns("WriteEmailsToFile") =>
        LET name == companyNames[i]
            line == name \o <<" ", ":", " ">> \o email
            c    == calls'[Len(calls')]
        IN  /\ c.name = name /\ c.email = email
            /\ c.err # Nil => file' = file
            /\ c.err = Nil =>
                  /\ file' = file \o line \o <<"\n">>
                  /\ file = <<>> => ScanLines(file') = <<line>>]_vars

\* the first write of a run, with an empty e-mail, has returned nil
C6_Witness ==
    /\ Len(calls) > 0
    /\ LastCall.fn = "WriteEmailsToFile"
    /\ LastCall.err = Nil
    /\ LastCall.email = <<>>
    /\ file = <<"A","c","m","e"," ","C","o"," ",":"," ","\n">>

(* C7: when GetSearchResults fails for a company, main() sets output[name] *)
(* to the empty string and goes straight to the next position: no page     *)
(* request is sent for that position, GetCompanyEmail and                  *)
(* WriteEmailsToFile are not called for it, and it has no line in the      *)
(* output file.                                                            *)
C7_FailedSearchSkipsCompany ==
    /\ [](\A p \in Positions :
            SearchErr(p) =>
                /\ Past(p)
                /\ RequestsOf("page", p) = {}
                /\ CallsOf("GetCompanyEmail", p) = {}
                /\ CallsOf("WriteEmailsToFile", p) = {}
                /\ LinesOf(p) = {})
    /\ [][(Returns("GetSearchResults") /\ calls'[Len(calls')].err # Nil) =>
            /\ calls'[Len(calls')].url = <<>>
            /\ output'[companyNames[i]] = <<>>
            /\ file' = file
            /\ requests' = requests
            /\ i' = i + 1
            /\ pc' = "loop"]_vars

\* the search found nothing for the first company, and the second company
\* has its line
C7_Witness ==
    /\ pc = "done"
    /\ \E k \in CallsOf("GetSearchResults", 1) : calls[k].err.kind = ErrNoResultsFound
    /\ WriteOK(2)
    /\ Len(FileLines) = 1

(* C8 as stated: with an empty key the run stops before the loop handles   *)
(* its first company, so no call for a company is ever made.               *)
C8_Original == KeyEmpty => calls = <<>>

(* C8: an empty key does not stop the run.  GetSearchResults is called for *)
(* every company and fails each time before a request is sent, so with an  *)
(* empty key no request is sent and no line is written, and main() runs    *)
(* through the whole list; the run only stops early when the input file    *)
(* cannot be read or the output file cannot be created.                    *)
C8_EmptyKeyFailsPerCompany ==
    /\ [](KeyEmpty =>
            /\ requests = <<>>
            /\ file = <<>>
            /\ \A k \in DOMAIN calls :
                  /\ calls[k].fn = "GetSearchResults"
                  /\ calls[k].pos = k
                  /\ calls[k].err.kind \in {ErrAPIKeyNotSet, ErrInitConfig}
            /\ pc = "done" => Len(calls) = Len(companyNames)
            /\ pc = "fatal" =>
                  /\ calls = <<>>
                  /\ Len(logs) = 1
                  /\ logs[1].reason.kind \in {"Error reading input file",
                                               "Failed to create output file"})
    /\ [][(KeyEmpty /\ pc = "loop" /\ i <= Len(companyNames)) =>
            (pc' = "loop" /\ i' = i + 1)]_vars

\* with no key at all, main() has returned after a failed call for each of
\* MaxCompanies companies
C8_Witness ==
    /\ KeyEmpty
    /\ pc = "done"
    /\ Len(calls) = MaxCompanies
    /\ \A k \in DOMAIN calls : calls[k].err.kind = ErrAPIKeyNotSet

(* C9 as stated: with an empty key every call of GetSearchResults returns  *)
(* the key-not-set error and an empty URL.                                 *)
C9_Original ==
    KeyEmpty =>
        \A k \in DOMAIN calls :
            calls[k].fn = "GetSearchResults" =>
                (calls[k].err.kind = ErrAPIKeyNotSet /\ calls[k].url = <<>>)

(* C9: with an empty key every call of GetSearchResults returns an empty   *)
(* URL and an error without a request being handed to the HTTP client; the *)
(* error is the key-not-set error when InitConfig succeeded, and the       *)
(* init-config error when the config file is there but cannot be read,     *)
(* because InitConfig runs before getAPIKey.                               *)
C9_EmptyKeyNoRequest ==
    /\ [](KeyEmpty =>
            \A k \in DOMAIN calls :
                calls[k].fn = "GetSearchResults" =>
                    /\ calls[k].url = <<>>
                    /\ calls[k].err.kind = IF InitConfig(cfgFile) = Nil
                                           THEN ErrAPIKeyNotSet
                                           ELSE ErrInitConfig
                    /\ RequestsOf("search", calls[k].pos) = {})
    /\ [][(KeyEmpty /\ Returns("GetSearchResults")) =>
            (pc = "loop" /\ requests' = requests /\ inflight' = "none")]_vars

\* with a readable configuration that holds no key, a call has returned the
\* key-not-set error and no request was sent
C9_Witness ==
    /\ KeyEmpty
    /\ InitConfig(cfgFile) = Nil
    /\ Len(calls) > 0
    /\ LastCall.fn = "GetSearchResults"
    /\ LastCall.err.kind = ErrAPIKeyNotSet
    /\ LastCall.url = <<>>
    /\ requests = <<>>

C11_FirstOrganicLink ==
    (/\ pc \in {"loop", "email"}
     /\ Len(calls) > 0
     /\ LastCall.fn = "GetSearchResults"
     /\ response.transport = "ok"
     /\ response.status = StatusOK
     /\ response.body.kind = "json") =>
        IF response.body.organic = <<>>
        THEN /\ LastCall.err.kind = ErrNoResultsFound
             /\ LastCall.url = <<>>
             /\ pc = "loop"
        ELSE /\ LastCall.err = Nil
             /\ LastCall.url = Head(response.body.organic)
             /\ companyURL = Head(response.body.organic)
             /\ pc = "email"

\* the list held two different links and the first one was returned
C11_Witness ==
    /\ pc = "email"
    /\ Len(calls) > 0
    /\ LastCall.fn = "GetSearchResults"
    /\ response.body.organic = <<FacebookURL, AcmeURL>>
    /\ LastCall.url = FacebookURL

(* C12 as stated: with a non-empty key, every company the loop is past had *)
(* exactly one search request.                                             *)
C12_Original ==
    ~KeyEmpty => \A p \in Positions : Past(p) => Cardinality(RequestsOf("search", p)) = 1

(* C12: GetSearchResults is called once for every position, and when the   *)
(* key is not empty and InitConfig succeeds each call sends exactly one    *)
(* search request, carrying the name at that position and the key; when    *)
(* InitConfig fails the call sends none, key or no key.  Nothing is kept   *)
(* between calls: at the end of the run a name that is k times in the list *)
(* was sent in k requests.                                                 *)
C12_OneRequestPerCall ==
    /\ \A r \in DOMAIN requests :
          requests[r].kind = "search" =>
              /\ requests[r].pos \in Positions
              /\ requests[r].q = companyNames[requests[r].pos]
              /\ requests[r].api_key = ViperGetAPIKey(cfgFile, envKey)
    /\ \A p \in Positions :
          /\ Cardinality(RequestsOf("search", p)) <= 1
          /\ Past(p) =>
                /\ Cardinality(CallsOf("GetSearchResults", p)) = 1
                /\ Cardinality(RequestsOf("search", p)) =
                      IF ~KeyEmpty /\ InitConfig(cfgFile) = Nil THEN 1 ELSE 0
    /\ (pc = "done" /\ ~KeyEmpty /\ InitConfig(cfgFile) = Nil) =>
          \A n \in Names :
              Cardinality({r \in DOMAIN requests :
                              requests[r].kind = "search" /\ requests[r].q = n})
                  = Cardinality({p \in Positions : companyNames[p] = n})

\* the same name is at positions 1 and 2; the first search found a URL, the
\* second request was sent all the same and found nothing
C12_Witness ==
    /\ pc = "done"
    /\ Len(companyNames) >= 2
    /\ companyNames[1] = companyNames[2]
    /\ RequestsOf("search", 1) # {} /\ RequestsOf("search", 2) # {}
    /\ \E k \in CallsOf("GetSearchResults", 1) : calls[k].url = AcmeURL
    /\ \E k \in CallsOf("GetSearchResults", 2) : calls[k].err.kind = ErrNoResultsFound

C14_FetchOnlyAfterValidation ==
    /\ \A r \in DOMAIN requests :
          requests[r].kind = "page" =>
              /\ requests[r].url = ResolvedURL
              /\ ~Contains(requests[r].url, FacebookCom)
              /\ Validated[requests[r].url] = Nil
    /\ Validated[ResolvedURL] # Nil =>
          /\ pc # "fetching"
          /\ RequestsOf("page", 1) = {}
          /\ pc # "email" => (EmailDone /\ calls[2].err = Validated[ResolvedURL])
    /\ (EmailDone /\ calls[2].err.kind \in {ErrSkippingFacebookURL, ErrInvalidCompanyURL}) =>
          RequestsOf("page", 1) = {}

\* the run is over for a link without a scheme: it was rejected as invalid
\* and the only request of the run is the search
C14_Witness ==
    /\ pc = "done"
    /\ ResolvedURL = NoSchemeURL
    /\ EmailDone
    /\ calls[2].err.kind = ErrInvalidCompanyURL
    /\ Len(requests) = 1

(* C15 as stated: a link without a scheme or without a host is rejected    *)
(* with the invalid-company-URL error and an empty e-mail.                 *)
C15_Original ==
    (EmailDone /\ MissingSchemeOrHost(ResolvedURL)) =>
        (calls[2].err.kind = ErrInvalidCompanyURL /\ calls[2].email = <<>>)

(* C15: a link without a scheme or without a host is rejected with an      *)
(* empty e-mail and without a request: with the invalid-company-URL error  *)
(* when "facebook.com" is not in it, and with the skipping-Facebook error, *)
(* which is tested first, when it is.                                      *)
C15_MissingSchemeOrHostRejected ==
    MissingSchemeOrHost(ResolvedURL) =>
        /\ pc # "fetching"
        /\ RequestsOf("page", 1) = {}
        /\ pc # "email" =>
              /\ EmailDone
              /\ calls[2].email = <<>>
              /\ calls[2].err.kind = IF Contains(ResolvedURL, FacebookCom)
                                     THEN ErrSkippingFacebookURL
                                     ELSE ErrInvalidCompanyURL

\* a link with a scheme and an empty host was rejected as invalid
C15_Witness ==
    /\ ResolvedURL = NoHost
    /\ EmailDone
    /\ calls[2].err.kind = ErrInvalidCompanyURL
    /\ calls[2].email = <<>>

(* C16 as stated: the non-OK-status error is returned exactly for a        *)
(* response with a status outside 200..299, and a response with a 2xx      *)
(* status whose body was read goes on to the extraction.                   *)
C16_Original ==
    Fetched =>
        /\ LastCall.err.kind = ErrNonOKStatus <=>
              (response.transport = "ok" /\ response.status \notin 200..299)
        /\ (/\ response.transport = "ok"
            /\ response.status \in 200..299
            /\ response.body.read = "ok") => Extracted(LastCall)

(* C16: when GetCompanyEmail has just returned for the response to its     *)
(* request, the error is fixed by the first step that failed: a transport  *)
(* failure gives the fetch-failed error; otherwise a status other than 200 *)
(* - another 2xx status included - gives the non-OK-status error with the  *)
(* status text; otherwise a failed read of the body gives the read-failed  *)
(* error; and the extraction ran, over the body that was read, exactly     *)
(* when the three steps succeeded.                                         *)
C16_FirstFailingFetchStep ==
    Fetched =>
        LET kind == LastCall.err.kind
        IN  /\ kind = ErrFetchFailed <=> response.transport # "ok"
            /\ kind = ErrNonOKStatus <=>
                  (response.transport = "ok" /\ response.status # StatusOK)
            /\ kind = ErrNonOKStatus => LastCall.err.detail = StatusText(response.status)
            /\ kind = ErrReadFailed <=>
                  /\ response.transport = "ok"
                  /\ response.status = StatusOK
                  /\ response.body.read # "ok"
            /\ Extracted(LastCall) <=>
                  /\ response.transport = "ok"
                  /\ response.status = StatusOK
                  /\ response.body.read = "ok"
            /\ Extracted(LastCall) => LastCall.body = response.body.text
            /\ ~Extracted(LastCall) => (LastCall.body = <<>> /\ LastCall.email = <<>>)

\* the server answered 201 with a page that holds an address, and
\* GetCompanyEmail returned the non-OK-status error
C16_Witness ==
    /\ Fetched
    /\ response.status = 201
    /\ response.body.read = "ok"
    /\ response.body.text = ContactBody
    /\ LastCall.err.kind = ErrNonOKStatus
    /\ LastCall.email = <<>>

(* C17: when the extraction ran over a body, it returned the               *)
(* no-email-found error exactly when no part of the body matches the       *)
(* pattern, and otherwise the match that starts first in the body (the     *)
(* longest one starting there); a body without '@' always gives the        *)
(* no-email-found error.                                                   *)
C17_FirstMatchOrNoEmail ==
    (Fetched /\ Extracted(LastCall)) =>
        LET t     == LastCall.body
            spans == MatchSpans[t]
        IN  /\ LastCall.err.kind = ErrNoEmailFound <=> spans = {}
            /\ spans = {} => LastCall.email = <<>>
            /\ (\A j \in 1..Len(t) : t[j] # "@") => LastCall.err.kind = ErrNoEmailFound
            /\ spans # {} =>
                  \E ab \in spans :
                      /\ LastCall.email = SubSeq(t, ab[1], ab[2])
                      /\ \A cd \in spans :
                            ab[1] < cd[1] \/ (ab[1] = cd[1] /\ cd[2] <= ab[2])

\* the page held two addresses and the one that comes first was returned
C17_Witness ==
    /\ Fetched
    /\ LastCall.body = TwoInOrder
    /\ LastCall.err = Nil
    /\ LastCall.email = Shortest

C19_LinesInOrderBlankKept ==
    /\ (pc # "read" /\ inputFile # Unreadable) =>
          /\ HoldsLines(inputFile, companyNames)
          /\ \A p \in Positions :
                \A j \in 1..Len(companyNames[p]) : companyNames[p][j] \notin {"\n", "\r"}
    /\ \A p \in Positions :
          Past(p) =>
              /\ SearchCalled(p)
              /\ (~KeyEmpty /\ InitConfig(cfgFile) = Nil) =>
                    \E r \in RequestsOf("search", p) : requests[r].q = companyNames[p]

\* the first line of the file is empty: the empty name was searched, a page
\* was fetched for it and its line was written
C19_Witness ==
    /\ pc = "done"
    /\ inputFile = CRLFFile
    /\ companyNames = <<Blank, AcmeCo>>
    /\ \E r \in RequestsOf("search", 1) : requests[r].q = <<>>
    /\ WriteOK(1)
    /\ FileLines[1] = Separator \o SalesAtAcme

(* C20: the run is ended by log.Fatalf in two places only, the reading of  *)
(* the input file and the creation of the output file, both ahead of the   *)
(* loop; when one of them fails the run is over at once, with no call into *)
(* the scraper for a company, no request and no output line.  Once the     *)
(* loop is running it is only left for the regular end of main().          *)
C20_OnlyTwoFatalFailures ==
    /\ [](pc = "fatal" =>
            /\ Len(logs) = 1
            /\ logs[1].reason.kind \in FatalReasons
            /\ calls = <<>>
            /\ requests = <<>>
            /\ file = <<>>
            /\ output = EmptyMap)
    /\ [](\A l \in DOMAIN logs : logs[l].reason.kind \in FatalReasons => pc = "fatal")
    /\ []((inputFile = Unreadable /\ pc # "read") => pc = "fatal")
    /\ [][pc' = "fatal" => (pc \in {"read", "create", "fatal"})]_vars
    /\ [][(pc \in InLoop) => (pc' \in InLoop \cup {"done"})]_vars

\* MaxCompanies names were read and the output file could not be created
C20_Witness ==
    /\ pc = "fatal"
    /\ Len(companyNames) = MaxCompanies
    /\ Len(logs) = 1
    /\ logs[1].reason.kind = "Failed to create output file"
    /\ requests = <<>>

C22_NoRetry ==
    /\ [](\A p \in Positions :
            /\ Cardinality(RequestsOf("search", p)) <= 1
            /\ Cardinality(RequestsOf("page", p)) <= 1
            /\ Cardinality({r \in DOMAIN requests : requests[r].pos = p}) <= 2)
    /\ [](\A r \in DOMAIN requests : requests[r].pos \in Positions)
    /\ [][/\ i' >= i
          /\ Len(requests') >= Len(requests)
          /\ SubSeq(requests', 1, Len(requests)) = requests
          /\ SubSeq(calls', 1, Len(calls)) = calls
          /\ \A p \in Positions :
                StageFailed(p) =>
                    /\ \A r \in (DOMAIN requests') \ (DOMAIN requests) : requests'[r].pos # p
                    /\ \A k \in (DOMAIN calls') \ (DOMAIN calls) :
                          calls'[k].pos = p =>
                              \A n \in DOMAIN calls :
                                  (calls[n].pos = p /\ calls[n].err # Nil)
                                      => calls[n].fn # calls'[k].fn]_vars

\* the run is over; the page request of the first company timed out, the
\* search request of the second one got a 404, and each was sent once
C22_Witness ==
    /\ pc = "done"
    /\ Len(companyNames) = MaxCompanies
    /\ Len(requests) = 3
    /\ \E k \in CallsOf("GetCompanyEmail", 1) : calls[k].err.kind = ErrFetchFailed
    /\ \E k \in CallsOf("GetSearchResults", 2) : calls[k].err.kind = ErrNonOKStatus

(* C23: main() is sequential.  At most one request is outstanding at any   *)
(* time, it is the one sent last, and a request is in flight only while    *)
(* the call that sent it has not returned.  A request is sent only when no *)
(* other is outstanding, it is for the current position of the loop, and   *)
(* every stage of every earlier position has finished by then.             *)
C23_Sequential ==
    /\ [](/\ Cardinality(Outstanding) <= 1
          /\ Outstanding \subseteq {Len(requests)}
          /\ inflight # "none" =>
                /\ Outstanding = {Len(requests)}
                /\ requests[Len(requests)].kind = inflight
                /\ requests[Len(requests)].pos = i
          /\ Outstanding # {} => pc \in {"searching", "fetching"})
    /\ [][Len(requests') > Len(requests) =>
            (/\ Len(requests') = Len(requests) + 1
             /\ Outstanding = {}
             /\ requests'[Len(requests')].pos = i
             /\ \A q \in 1..(i - 1) : Processed(q)
             /\ \A r \in DOMAIN requests : requests[r].pos <= i)]_vars

\* the request for the second company is in flight, after the page request
\* of the first one timed out and its line was written
C23_Witness ==
    /\ inflight = "search"
    /\ i = 2
    /\ Len(requests) = 3
    /\ \E k \in CallsOf("GetCompanyEmail", 1) : calls[k].err.kind = ErrFetchFailed
    /\ WriteOK(1)

(* C24: what happens to a company depends on that company alone.  Every    *)
(* call that returns does so for the current position, and its result is   *)
(* the one the configuration, the company's own name, the company's own    *)
(* URL and e-mail and the answer to the company's own request determine:   *)
(* GetSearchResults returns what the answer to this position's search      *)
(* request gives (or the configuration error, without a request),          *)
(* GetCompanyEmail is called with this position's URL and returns what the *)
(* answer to this position's page request gives (or the error of the       *)
(* checks), and the write appends the line of this position's name and     *)
(* e-mail or leaves the file as it is.  No result, request or error of     *)
(* another company enters, so answers, timeouts and request errors of      *)
(* company j leave the outcome and the line of company i as they are.      *)
C24_NoStateAcrossCompanies ==
    /\ [][\A fn \in {"GetSearchResults", "GetCompanyEmail", "WriteEmailsToFile"} :
            Returns(fn) =>
                LET c == calls'[Len(calls')]
                IN  /\ c.pos = i
                    /\ i \in Positions
                    /\ c.name = companyNames[i]
                    /\ fn = "GetSearchResults" =>
                          IF RequestsOf("search", i) = {}
                          THEN /\ c.err = GetSearchResultsPrepare(cfgFile, envKey, c.name).err
                               /\ c.err # Nil
                               /\ c.url = <<>>
                          ELSE /\ RequestsOf("search", i) = {Len(requests)}
                               /\ requests[Len(requests)].q = c.name
                               /\ c.url = GetSearchResultsFinish(response, c.name).url
                               /\ c.err = GetSearchResultsFinish(response, c.name).err
                    /\ fn = "GetCompanyEmail" =>
                          /\ SearchOK(i)
                          /\ c.url = OwnURL(i)
                          /\ IF RequestsOf("page", i) = {}
                             THEN /\ c.err = Prepared[OwnURL(i)]
                                  /\ c.err # Nil
                                  /\ c.email = <<>>
                             ELSE /\ RequestsOf("page", i) = {Len(requests)}
                                  /\ requests[Len(requests)].url = OwnURL(i)
                                  /\ c.email = GetCompanyEmailFinish(response, c.name).email
                                  /\ c.err = GetCompanyEmailFinish(response, c.name).err
                    /\ fn = "WriteEmailsToFile" =>
                          /\ CallsOf("GetCompanyEmail", i) # {}
                          /\ c.email = OwnEmail(i)
                          /\ IF c.err = Nil
                             THEN file' = file \o FormatLine(c.name, OwnEmail(i))
                             ELSE file' = file]_vars
    /\ [](\A p \in Positions :
            Past(p) => LinesOf(p) \subseteq {companyNames[p] \o Separator \o OwnEmail(p)})

\* the same name twice: the page request of the first company timed out and
\* left the line with the empty e-mail, and the second company has the line
\* with the address of its page
C24_Witness ==
    /\ pc = "done"
    /\ companyNames = <<AcmeCo, AcmeCo>>
    /\ \E k \in CallsOf("GetCompanyEmail", 1) : calls[k].err.kind = ErrFetchFailed
    /\ FileLines = <<AcmeCo \o Separator, AcmeCo \o Separator \o SalesAtAcme>>

C26_MissingConfigTolerated ==
    /\ cfgFile.state = "missing" =>
          /\ InitConfig(cfgFile) = Nil
          /\ ViperGetAPIKey(cfgFile, envKey) = envKey
          /\ \A k \in DOMAIN calls : calls[k].err.kind # ErrInitConfig
          /\ \A r \in DOMAIN requests : requests[r].kind = "search" => requests[r].api_key = envKey
          /\ Len(calls) >= 1 =>
                IF envKey = <<>>
                THEN calls[1].err.kind = ErrAPIKeyNotSet /\ requests = <<>>
                ELSE Len(requests) >= 1 /\ requests[1].api_key = envKey
    /\ (cfgFile.state = "valid" /\ cfgFile.key # <<>> /\ envKey = <<>>) =>
          /\ InitConfig(cfgFile) = Nil
          /\ ViperGetAPIKey(cfgFile, envKey) = cfgFile.key
          /\ Len(calls) >= 1 => (Len(requests) >= 1 /\ requests[1].api_key = cfgFile.key)

\* no config file and SERPAPI_KEY set: the search request went out with the
\* key of the environment and GetSearchResults returned a link
C26_Witness ==
    /\ cfgFile = CfgMissing
    /\ envKey = EnvKey
    /\ Len(calls) >= 1
    /\ calls[1].fn = "GetSearchResults"
    /\ calls[1].err = Nil
    /\ requests[1].api_key = EnvKey

(* C27: GetSearchResults and GetCompanyEmail return the empty string with  *)
(* every error: a call that returned an error returned no URL and no       *)
(* e-mail, so a non-empty URL or e-mail comes with a nil error only; and   *)
(* main() records the empty URL for the name after a failed search and     *)
(* holds the empty e-mail when it goes to the write after a failed         *)
(* GetCompanyEmail.                                                        *)
C27_EmptyValueWithError ==
    /\ \A k \in DOMAIN calls :
          /\ (calls[k].fn = "GetSearchResults" /\ calls[k].err # Nil) => calls[k].url = <<>>
          /\ (calls[k].fn = "GetCompanyEmail" /\ calls[k].err # Nil) => calls[k].email = <<>>
          /\ (calls[k].fn = "GetSearchResults" /\ calls[k].url # <<>>) => calls[k].err = Nil
          /\ (calls[k].fn = "GetCompanyEmail" /\ calls[k].email # <<>>) => calls[k].err = Nil
    /\ (pc = "write" /\ err # Nil) => email = <<>>
    /\ (pc = "loop" /\ Len(calls) > 0 /\ LastCall.fn = "GetSearchResults") =>
          output[LastCall.name] = <<>>

\* the search API answered 404 with a body that holds a link, and
\* GetSearchResults returned the status error with the empty URL
C27_Witness ==
    /\ pc = "loop"
    /\ Len(calls) > 0
    /\ LastCall.fn = "GetSearchResults"
    /\ LastCall.err.kind = ErrNonOKStatus
    /\ LastCall.url = <<>>
    /\ response.body.organic # <<>>

(* C28: both network stages take every status other than 200 for a         *)
(* failure, 201 included.  When the answer to the search request or to the *)
(* page request came through with another status, the call returns the     *)
(* non-OK-status error carrying the status text and the empty string: not  *)
(* the decode error and not a link when it is the search, whatever the     *)
(* body holds, and not the read error, the no-e-mail error or an address   *)
(* when it is the page, whose body is not read.                            *)
C28_Only200IsSuccess ==
    [][\A fn \in {"GetSearchResults", "GetCompanyEmail"} :
          (/\ Returns(fn)
           /\ pc \in {"searching", "fetching"}
           /\ response.transport = "ok"
           /\ response.status # 200) =>
              LET c == calls'[Len(calls')]
              IN  /\ c.err = Error(ErrNonOKStatus, StatusText(response.status))
                  /\ c.url = IF fn = "GetSearchResults" THEN <<>> ELSE companyURL
                  /\ c.email = <<>>
                  /\ c.body = <<>>
                  /\ email' = <<>>
                  /\ fn = "GetSearchResults" => (companyURL' = <<>> /\ pc' = "loop")]_vars

\* the page of the first company came with status 201 and GetCompanyEmail
\* returned the status error; now the search for the second company was
\* answered 201 with a link in the body and returned the status error too
C28_Witness ==
    /\ pc = "loop"
    /\ i = 3
    /\ \E k \in CallsOf("GetCompanyEmail", 1) :
          calls[k].err = Error(ErrNonOKStatus, StatusText(201))
    /\ LastCall.fn = "GetSearchResults"
    /\ LastCall.err = Error(ErrNonOKStatus, StatusText(201))
    /\ response.status = 201
    /\ response.body.organic # <<>>

(* C29: the Facebook check comes first and looks for the exact characters  *)
(* "facebook.com" anywhere in the link.  GetCompanyEmail returns the       *)
(* skipping-Facebook error, carrying the link, exactly for the links that  *)
(* hold that substring: also for one that is malformed - no scheme, no     *)
(* host, or not parseable - which is never reported as invalid, and for a  *)
(* well-formed one that holds it in its path or query only.  A link that   *)
(* holds it in another case ("Facebook.com") is not skipped.               *)
C29_FacebookCheckFirst ==
    EmailDone =>
        /\ calls[2].err.kind = ErrSkippingFacebookURL <=> Contains(ResolvedURL, FacebookCom)
        /\ Contains(ResolvedURL, FacebookCom) =>
              /\ calls[2].err = Error(ErrSkippingFacebookURL, ResolvedURL)
              /\ calls[2].err.kind # ErrInvalidCompanyURL
              /\ RequestsOf("page", 1) = {}
        /\ (~Contains(ResolvedURL, FacebookCom) /\ MissingSchemeOrHost(ResolvedURL)) =>
              calls[2].err.kind = ErrInvalidCompanyURL
        /\ (~Contains(ResolvedURL, FacebookCom) /\ Contains(ToLower(ResolvedURL), FacebookCom)) =>
              /\ calls[2].err.kind # ErrSkippingFacebookURL
              /\ WellFormedAbsolute(ResolvedURL) => RequestsOf("page", 1) # {}

\* a link without a scheme that holds "facebook.com" was reported as a
\* skipped Facebook URL
C29_Witness ==
    /\ EmailDone
    /\ MissingSchemeOrHost(ResolvedURL)
    /\ ParseRequestURI(ResolvedURL).ok = FALSE
    /\ Contains(ResolvedURL, FacebookCom)
    /\ calls[2].err = Error(ErrSkippingFacebookURL, ResolvedURL)

(* C30: an e-mail that GetCompanyEmail returns with a nil error is not     *)
(* empty.  It is a piece of the body that was read, it holds exactly one   *)
(* '@' with at least one character before it, and it ends with a '.' and   *)
(* two letters or more behind it.  So, main() going to the write after     *)
(* every call of GetCompanyEmail, the line of a company holds the empty    *)
(* e-mail exactly when GetCompanyEmail failed for that company.            *)
C30_ReturnedEmailWellFormed ==
    /\ \A k \in DOMAIN calls :
          (calls[k].fn = "GetCompanyEmail" /\ calls[k].err = Nil) =>
              LET e  == calls[k].email
                  at == IndexOf(e, "@")
              IN  /\ e # <<>>
                  /\ Contains(calls[k].body, e)
                  /\ Cardinality({j \in 1..Len(e) : e[j] = "@"}) = 1
                  /\ at > 1
                  /\ \E m \in (at + 1)..Len(e) :
                        /\ e[m] = "."
                        /\ Len(e) - m >= 2
                        /\ \A j \in (m + 1)..Len(e) : e[j] \in Alpha
    /\ \A p \in Positions :
          (Past(p) /\ SearchOK(p)) =>
              /\ Cardinality(CallsOf("WriteEmailsToFile", p)) = 1
              /\ LineCount(p) = 1 =>
                    (LinesOf(p) = {companyNames[p] \o Separator} <=> EmailFailed(p))

\* the page held "a@b.co", the shortest text the pattern matches; it was
\* returned and written to the company's line
C30_Witness ==
    /\ pc = "done"
    /\ EmailDone
    /\ calls[2].err = Nil
    /\ calls[2].body = Shortest
    /\ calls[2].email = Shortest
    /\ FileLines = <<AcmeCo \o Separator \o Shortest>>

====
